---- MODULE Spec2Model ----
(***************************************************************************)
(* The animation of the landing page: Home, Scene, Landscape, Effects and  *)
(* Foo of src/pages/index.js (earlier revision) and src/unnamed/part_000   *)
(* (later revision).                                                       *)
(*                                                                         *)
(* Numbers.  Every fractional literal of the source is kept exactly, as an *)
(* integer count of 1/10000: 0.1 is 1000, 2 is 20000, -2.4 is -24000,      *)
(* 0.003 is 30, 0.0012 is 12.  elapsedTime is in whole seconds and a       *)
(* scroll offset in whole pixels.                                          *)
(***************************************************************************)
EXTENDS Integers, Sequences, FiniteSets

VARIABLES
    rev,          \* which revision of the page runs
    mounted,      \* Scene: const [mounted, setMounted] = React.useState(false)
    canvas,       \* lifecycle of <Canvas> and of the subtree under React.Suspense
    scroll,       \* Home: const [scroll, setScroll] = React.useState(0)
    propScroll,   \* Foo: the scroll prop of its last committed render
    effectDeps,   \* Foo: <<>> until the effect first ran, then <<deps it last ran with>>
    elapsedTime,  \* state.clock.elapsedTime
    terrainZ,     \* terrainNRef.current.position.z, <<>> while the meshes do not exist
    amount,       \* rgbShiftRef.current.uniforms["amount"].value, <<>> or <<v>>
    camera,       \* camera.position, <<>> or <<x, y, z>>
    refs,         \* the refs whose .current is set
    subscribers,  \* the components whose useFrame callback is registered
    refreshes,    \* display refreshes so far
    ticks,        \* refreshes in which the useFrame callbacks ran
    tickError,    \* a useFrame callback threw
    lastFrame     \* <<>> or <<inputs and outputs of the latest tick>>

vars == <<rev, mounted, canvas, scroll, propScroll, effectDeps, elapsedTime,
          terrainZ, amount, camera, refs, subscribers, refreshes, ticks,
          tickError, lastFrame>>

(***************************************************************************)
(* Bounds and input sets.                                                  *)
(***************************************************************************)
MaxRefreshes == 5

\* seconds between two refreshes; 0 is two frames on one clock reading
Deltas == {0, 1, 15}

\* e.currentTarget.scrollTop
ScrollValues == {0, 100, 400}

\* the value RGBShiftShader ships in uniforms.amount; three-stdlib sets it,
\* this repository does not
ShaderDefaults == {0, 50}

(***************************************************************************)
(* Configuration of the two revisions.                                     *)
(***************************************************************************)
Revisions == {"index", "part_000"}

\* the Terrain elements Landscape declares
Terrains(r) == IF r = "index" THEN 1 .. 2 ELSE 1 .. 3

TerrainRef(i) == <<"terrain1Ref", "terrain2Ref", "terrain3Ref">>[i]

\* <Terrain ref={terrainNRef} z={...} />
DeclaredZ == <<0, -20000, 20000>>

\* the constant added after the modulo in the useFrame callback
Stagger == <<0, -20000, 20000>>

\* the later revision left moving at the earlier rate
RateMoving(r) == 1000

\* state.clock.elapsedTime * 0.1 (index.js), * 0 (part_000)
Rate(r) == IF r = "index" THEN 1000 ELSE 0

\* ... % 2
Period == 20000

\* <PerspectiveCamera makeDefault position={[...]} />
CameraPosition(r) == IF r = "index" THEN <<0, 1100, 11000>> ELSE <<0, 1000, -24000>>

\* the modulo left out
JsRemDropped(a, b) == a

\* JavaScript's %: the remainder of the truncated division, signed as the dividend
JsRem(a, b) == IF a >= 0 THEN a % b ELSE -((-a) % b)

\* the stagger added before the modulo instead of after it
LandscapeDepthStaggerInside(r, t, i) == JsRem((t * Rate(r)) + Stagger[i], Period)

\* terrainNRef.current.position.z = ((state.clock.elapsedTime * rate) % 2) + stagger
LandscapeDepth(r, t, i) == JsRem(t * Rate(r), Period) + Stagger[i]

\* position.z += ... in place of position.z = ...
LandscapeFrameAccumulating(t) ==
    [i \in Terrains(rev) |-> terrainZ[i] + JsRem(t * Rate(rev), Period)]

\* the useFrame callback of Landscape at clock reading t: the new position.z
\* of every terrain
LandscapeFrame(t) == [i \in Terrains(rev) |-> LandscapeDepth(rev, t, i)]

\* the literal Effects assigns to uniforms["amount"].value
RgbShiftAmount == 12

\* the uniform animated with the clock
EffectsFrameAnimated == IF "rgbShiftRef" \in refs THEN <<RgbShiftAmount + elapsedTime>> ELSE amount

\* the useFrame callback of Effects: if (rgbShiftRef.current) { ... = 0.0012 }
EffectsFrame == IF "rgbShiftRef" \in refs THEN <<RgbShiftAmount>> ELSE amount

\* a coefficient of 0.0003
CameraDepthSlow(s) == -24000 + (s * 3)

\* camera.position.set(0, 0.1, (-2.4+(scroll * 0.003)))
CameraDepth(s) == -24000 + (s * 30)

FooPosition(s) == <<0, 1000, CameraDepth(s)>>

\* the third Terrain declared without ref={terrain3Ref}
MountedRefsMissing(r) == {"terrain1Ref", "terrain2Ref", "composerRef", "rgbShiftRef"}

\* the refs the committed subtree attaches
MountedRefs(r) == {TerrainRef(i) : i \in Terrains(r)} \cup {"composerRef", "rgbShiftRef"}

\* what Landscape's callback dereferences without a guard
LandscapeRefs(r) == {TerrainRef(i) : i \in Terrains(r)}

(***************************************************************************)
(* Initial state: Home and Scene have rendered once, mounted is false and  *)
(* Scene returned null in place of the Canvas.                             *)
(***************************************************************************)
Init ==
    /\ rev \in Revisions
    /\ mounted = FALSE
    /\ canvas = "absent"
    /\ scroll = 0
    /\ propScroll = 0
    /\ effectDeps = <<>>
    /\ elapsedTime = 0
    /\ terrainZ = <<>>
    /\ amount = <<>>
    /\ camera = <<>>
    /\ refs = {}
    /\ subscribers = {}
    /\ refreshes = 0
    /\ ticks = 0
    /\ tickError = FALSE
    /\ lastFrame = <<>>

(***************************************************************************)
(* Scene: React.useEffect(() => { setMounted(true); }, []) runs once after *)
(* the first commit.                                                       *)
(***************************************************************************)
SceneMountEffect ==
    /\ canvas = "absent"
    /\ ~mounted
    /\ mounted' = TRUE
    /\ UNCHANGED <<rev, canvas, scroll, propScroll, effectDeps, elapsedTime,
                   terrainZ, amount, camera, refs, subscribers, refreshes,
                   ticks, tickError, lastFrame>>

\* the Canvas rendered whatever mounted is
SceneRenderUngated ==
    /\ canvas = "absent"
    /\ canvas' = "suspended"
    /\ UNCHANGED <<rev, mounted, scroll, propScroll, effectDeps, elapsedTime,
                   terrainZ, amount, camera, refs, subscribers, refreshes,
                   ticks, tickError, lastFrame>>

(***************************************************************************)
(* Scene re-renders with mounted = true: the Canvas is created and its     *)
(* children render under React.Suspense, where Terrain (useTexture) and    *)
(* LogoObject (useLoader) suspend until their images are loaded; nothing   *)
(* under the boundary is committed yet.                                    *)
(***************************************************************************)
SceneRender ==
    /\ mounted
    /\ canvas = "absent"
    /\ canvas' = "suspended"
    /\ UNCHANGED <<rev, mounted, scroll, propScroll, effectDeps, elapsedTime,
                   terrainZ, amount, camera, refs, subscribers, refreshes,
                   ticks, tickError, lastFrame>>

(***************************************************************************)
(* The images are loaded and the subtree under the Suspense boundary is    *)
(* committed in one step: the meshes, the camera and the passes are        *)
(* created with their declared values, the refs are attached, the useFrame *)
(* callbacks are registered, and Foo is rendered with the current scroll   *)
(* prop, its effect still to run.                                          *)
(***************************************************************************)
CommitCanvas ==
    /\ canvas = "suspended"
    /\ canvas' = "running"
    /\ terrainZ' = [i \in Terrains(rev) |-> DeclaredZ[i]]
    /\ camera' = CameraPosition(rev)
    /\ \E d \in ShaderDefaults : amount' = <<d>>
    /\ refs' = MountedRefs(rev)
    /\ subscribers' = {"Landscape", "Effects"}
    /\ propScroll' = scroll
    /\ UNCHANGED <<rev, mounted, scroll, effectDeps, elapsedTime, refreshes,
                   ticks, tickError, lastFrame>>

\* the handler moving the camera itself
OnScrollMovesCamera(v) ==
    /\ rev = "part_000"
    /\ canvas # "unmounted"
    /\ v # scroll
    /\ scroll' = v
    /\ camera' = IF canvas = "running" THEN FooPosition(v) ELSE camera
    /\ UNCHANGED <<rev, mounted, canvas, propScroll, effectDeps, elapsedTime,
                   terrainZ, amount, refs, subscribers, refreshes,
                   ticks, tickError, lastFrame>>

(***************************************************************************)
(* Home: onScroll={(e) => { setScroll(e.currentTarget.scrollTop); }}       *)
(* (part_000 only).  The handler writes React state and nothing else.      *)
(***************************************************************************)
OnScroll(v) ==
    /\ rev = "part_000"
    /\ canvas # "unmounted"
    /\ v # scroll
    /\ scroll' = v
    /\ UNCHANGED <<rev, mounted, canvas, propScroll, effectDeps, elapsedTime,
                   terrainZ, amount, camera, refs, subscribers, refreshes,
                   ticks, tickError, lastFrame>>

(***************************************************************************)
(* The re-render that setScroll scheduled reaches Foo: Home passes scroll  *)
(* to Scene, Scene to Foo.                                                 *)
(***************************************************************************)
RenderFoo ==
    /\ rev = "part_000"
    /\ canvas = "running"
    /\ propScroll # scroll
    /\ propScroll' = scroll
    /\ UNCHANGED <<rev, mounted, canvas, scroll, effectDeps, elapsedTime,
                   terrainZ, amount, camera, refs, subscribers, refreshes,
                   ticks, tickError, lastFrame>>

\* the effect writing the offset of the render before (a stale closure)
FooEffectStale ==
    /\ rev = "part_000"
    /\ canvas = "running"
    /\ effectDeps # <<propScroll>>
    /\ camera' = IF effectDeps = <<>> THEN FooPosition(0) ELSE FooPosition(effectDeps[1])
    /\ effectDeps' = <<propScroll>>
    /\ UNCHANGED <<rev, mounted, canvas, scroll, propScroll, elapsedTime,
                   terrainZ, amount, refs, subscribers, refreshes, ticks,
                   tickError, lastFrame>>

(***************************************************************************)
(* Foo: useEffect(() => { camera.position.set(...) }, [scroll]) runs after *)
(* the commit of a render whose scroll differs from the one it last ran    *)
(* with, and after the first commit.                                       *)
(***************************************************************************)
FooEffect ==
    /\ rev = "part_000"
    /\ canvas = "running"
    /\ effectDeps # <<propScroll>>
    /\ camera' = FooPosition(propScroll)
    /\ effectDeps' = <<propScroll>>
    /\ UNCHANGED <<rev, mounted, canvas, scroll, propScroll, elapsedTime,
                   terrainZ, amount, refs, subscribers, refreshes, ticks,
                   tickError, lastFrame>>

(***************************************************************************)
(* A display refresh with no useFrame callback registered.  The Canvas,    *)
(* once created, advances its clock on every frame even so.                *)
(***************************************************************************)
IdleRefresh(dt) ==
    /\ subscribers = {}
    /\ refreshes < MaxRefreshes
    /\ refreshes' = refreshes + 1
    /\ elapsedTime' = IF canvas = "suspended" THEN elapsedTime + dt ELSE elapsedTime
    /\ UNCHANGED <<rev, mounted, canvas, scroll, propScroll, effectDeps,
                   terrainZ, amount, camera, refs, subscribers, ticks,
                   tickError, lastFrame>>

(***************************************************************************)
(* A display refresh with the callbacks registered: the clock advances,    *)
(* then Landscape's callback (priority 0) and Effects' callback            *)
(* (priority 1) run.  A callback that dereferences an unset ref throws and *)
(* the frame ends there.                                                   *)
(***************************************************************************)
Tick(dt) ==
    /\ subscribers # {}
    /\ refreshes < MaxRefreshes
    /\ refreshes' = refreshes + 1
    /\ ticks' = ticks + 1
    /\ elapsedTime' = elapsedTime + dt
    /\ IF ~(LandscapeRefs(rev) \subseteq refs)
         THEN /\ tickError' = TRUE
              /\ UNCHANGED <<terrainZ, amount>>
         ELSE /\ terrainZ' = LandscapeFrame(elapsedTime + dt)
              /\ amount' = EffectsFrame
              /\ tickError' = (tickError \/ "composerRef" \notin refs)
    /\ lastFrame' = <<[time |-> elapsedTime', scroll |-> effectDeps,
                       terrainZ |-> terrainZ', amount |-> amount',
                       camera |-> camera,
                       repeated |-> /\ lastFrame # <<>>
                                    /\ lastFrame[1].time = elapsedTime'
                                    /\ lastFrame[1].scroll = effectDeps]>>
    /\ UNCHANGED <<rev, mounted, canvas, scroll, propScroll, effectDeps,
                   camera, refs, subscribers>>

\* the teardown putting the flag back to its initial value
UnmountClearsFlag ==
    /\ mounted
    /\ canvas # "unmounted"
    /\ canvas' = "unmounted"
    /\ mounted' = FALSE
    /\ subscribers' = {}
    /\ refs' = {}
    /\ UNCHANGED <<rev, scroll, propScroll, effectDeps, elapsedTime,
                   terrainZ, amount, camera, refreshes, ticks, tickError,
                   lastFrame>>

(***************************************************************************)
(* The page is left: Scene and the Canvas unmount.  In one commit the      *)
(* useFrame callbacks are unregistered and the refs are cleared.  React    *)
(* runs the pending passive effects of a commit before it commits the next *)
(* update, so Scene's mount effect has run by then.                        *)
(***************************************************************************)
Unmount ==
    /\ mounted
    /\ canvas # "unmounted"
    /\ canvas' = "unmounted"
    /\ subscribers' = {}
    /\ refs' = {}
    /\ UNCHANGED <<rev, mounted, scroll, propScroll, effectDeps, elapsedTime,
                   terrainZ, amount, camera, refreshes, ticks, tickError,
                   lastFrame>>

Next ==
    \/ SceneMountEffect
    \/ SceneRender
    \/ CommitCanvas
    \/ \E v \in ScrollValues : OnScroll(v)
    \/ RenderFoo
    \/ FooEffect
    \/ \E dt \in Deltas : IdleRefresh(dt)
    \/ \E dt \in Deltas : Tick(dt)
    \/ Unmount

Spec == Init /\ [][Next]_vars

\* React runs the passive effect of Scene's first commit: the mount effect is
\* not postponed for ever
FairSpec == Spec /\ WF_vars(SceneMountEffect)

TypeOK ==
    /\ rev \in Revisions
    /\ mounted \in BOOLEAN
    /\ canvas \in {"absent", "suspended", "running", "unmounted"}
    /\ scroll \in ScrollValues
    /\ propScroll \in ScrollValues
    /\ Len(effectDeps) <= 1
    /\ elapsedTime \in Nat
    /\ refreshes \in 0 .. MaxRefreshes
    /\ ticks \in 0 .. refreshes
    /\ tickError \in BOOLEAN

(***************************************************************************)
(* Properties.                                                             *)
(***************************************************************************)
\* a step that is a display refresh / a refresh in which the callbacks ran
RefreshStep == refreshes' = refreshes + 1
TickStep == ticks' = ticks + 1

\* C1 as stated: while mounted is false no tick has run and no scene-graph
\* property exists to be written, and once mounted is true every display
\* refresh runs a tick.
C1_TickOnNextRefresh ==
    /\ [](~mounted => (ticks = 0 /\ terrainZ = <<>> /\ amount = <<>> /\ camera = <<>>))
    /\ [][(mounted /\ canvas # "unmounted" /\ RefreshStep) => TickStep]_vars

\* C1 amended: while mounted is false no tick has run and no scene-graph
\* property has been written; a refresh runs a tick exactly when the subtree
\* under the Suspense boundary has been committed, which happens only after
\* mounted was set, so ticking begins on the first refresh after that commit.
C1_MountGate ==
    /\ [](~mounted => (ticks = 0 /\ terrainZ = <<>> /\ amount = <<>> /\ camera = <<>>))
    /\ [](canvas = "running" => mounted)
    /\ [][RefreshStep => (TickStep <=> canvas = "running")]_vars

\* a refresh passed idle after the flag was set, and later ones ticked
C1_Witness ==
    /\ mounted
    /\ canvas = "running"
    /\ ticks >= 1
    /\ refreshes > ticks

\* C2: after any tick every terrain i has s_i <= z_i < s_i + 2, with the
\* staggers 0, -2 and (later revision) +2, at both rates.
C2_ModularWrap ==
    ticks > 0 =>
        /\ Len(terrainZ) = (IF rev = "index" THEN 2 ELSE 3)
        /\ \A i \in 1 .. Len(terrainZ) :
              /\ <<0, -20000, 20000>>[i] <= terrainZ[i]
              /\ terrainZ[i] < <<0, -20000, 20000>>[i] + 20000

\* the moving revision after the clock passed one period: the depth wrapped
C2_Witness ==
    /\ rev = "index"
    /\ ticks > 0
    /\ elapsedTime >= 20
    /\ terrainZ[1] = (elapsedTime * 1000) - 20000

\* C3 as stated: after a tick, two distinct terrains' depths differ by
\* (s_i - s_j) mod 2, a value in [0, 2).
C3_SpacingModPeriod ==
    ticks > 0 =>
        \A i, j \in 1 .. Len(terrainZ) :
            i # j =>
                terrainZ[i] - terrainZ[j] =
                    (<<0, -20000, 20000>>[i] - <<0, -20000, 20000>>[j]) % 20000

\* C3 amended: after a tick, two distinct terrains' depths differ by exactly
\* s_i - s_j (2 or 4 in magnitude), not reduced modulo the period.
C3_SpacingExact ==
    ticks > 0 =>
        \A i, j \in 1 .. Len(terrainZ) :
            i # j =>
                terrainZ[i] - terrainZ[j] =
                    <<0, -20000, 20000>>[i] - <<0, -20000, 20000>>[j]

\* the moving revision past one period, the two terrains 2 apart
C3_Witness ==
    /\ rev = "index"
    /\ ticks > 0
    /\ elapsedTime > 20
    /\ terrainZ[1] > 0
    /\ terrainZ[1] - terrainZ[2] = 20000

\* C4: once Foo's effect has run for scroll s the camera is at
\* (0, 0.1, -2.4 + 0.003 * s); the depth is affine in s with slope 0.003 and
\* equals the declared depth -2.4 at s = 0.
C4_CameraAffine ==
    /\ (rev = "part_000" /\ effectDeps # <<>>) =>
            camera = <<0, 1000, -24000 + (30 * effectDeps[1])>>
    /\ \A a, b \in ScrollValues : CameraDepth(a) - CameraDepth(b) = 30 * (a - b)
    /\ CameraDepth(0) = CameraPosition("part_000")[3]

\* the effect has run for a scroll offset of 400
C4_Witness ==
    /\ effectDeps = <<400>>
    /\ camera = <<0, 1000, -12000>>

\* C5 as stated: every tick runs with the camera depth derived from the
\* scroll value setScroll committed last.
C5_TickSeesLatestScroll ==
    [][(rev = "part_000" /\ TickStep) => camera[3] = -24000 + (30 * scroll)]_vars

\* C5 amended: every tick runs with the camera depth derived from the scroll
\* value Foo's effect last ran with (the declared depth before its first
\* run); that is the value setScroll committed last whenever no re-render of
\* Foo and no run of its effect is pending, and an older one while one is.
C5_TickSeesAppliedScroll ==
    /\ [][(rev = "part_000" /\ TickStep) =>
            camera[3] = (IF effectDeps = <<>> THEN -24000
                         ELSE -24000 + (30 * effectDeps[1]))]_vars
    /\ []((rev = "part_000" /\ canvas = "running"
           /\ propScroll = scroll /\ effectDeps = <<propScroll>>) =>
            camera[3] = -24000 + (30 * scroll))

\* a tick ran after the offset 400 was committed and applied
C5_Witness ==
    /\ scroll = 400
    /\ effectDeps = <<400>>
    /\ lastFrame # <<>>
    /\ lastFrame[1].scroll = <<400>>
    /\ lastFrame[1].camera[3] = -12000

\* C6 as stated: between two states of the committed scene, a step that
\* changes a terrain depth, the uniform or the camera position is a tick.
C6_OnlyTickWrites ==
    [][(canvas = "running" /\ canvas' = "running"
        /\ (terrainZ' # terrainZ \/ amount' # amount \/ camera' # camera)) =>
            TickStep]_vars

\* C6 amended: in the committed scene a step that changes a terrain depth or
\* the uniform is a tick; a step that changes the camera position is a run
\* of Foo's effect and not a tick; the scroll handler changes none of them.
C6_WritersBySite ==
    [][(canvas = "running" /\ canvas' = "running") =>
        /\ (terrainZ' # terrainZ \/ amount' # amount) => TickStep
        /\ camera' # camera => (effectDeps' # effectDeps /\ ~TickStep)
        /\ TickStep => camera' = camera
        /\ scroll' # scroll =>
              (terrainZ' = terrainZ /\ amount' = amount /\ camera' = camera)]_vars

\* ticks have run and the effect has moved the camera off its declared place
C6_Witness ==
    /\ rev = "part_000"
    /\ canvas = "running"
    /\ ticks > 0
    /\ amount = <<12>>
    /\ scroll = 100
    /\ camera = <<0, 1000, -21000>>

C9_NoFailurePath ==
    /\ [][TickStep =>
            /\ {"terrain1Ref", "terrain2Ref", "composerRef"} \subseteq refs
            /\ rev = "part_000" => "terrain3Ref" \in refs]_vars
    /\ [](~tickError)

\* ticks have run in the revision with three terrains
C9_Witness ==
    /\ rev = "part_000"
    /\ ticks >= 2
    /\ ~tickError
    /\ canvas = "running"

\* C10: a tick with rgbShiftRef set leaves the uniform at 0.0012 and a tick
\* with it unset leaves the uniform as it was; after the first tick it is
\* 0.0012 in every state.
C10_UniformConstant ==
    /\ [][TickStep =>
            amount' = (IF "rgbShiftRef" \in refs THEN <<12>> ELSE amount)]_vars
    /\ [](ticks > 0 => amount = <<12>>)

\* ticks at different clock readings and scroll offsets, the uniform at 0.0012
C10_Witness ==
    /\ ticks >= 2
    /\ elapsedTime > 0
    /\ scroll # 0
    /\ effectDeps # <<>>
    /\ amount = <<12>>

\* the lifecycle of the ready flag
Lifecycle ==
    IF canvas = "unmounted" THEN "torn down"
    ELSE IF mounted THEN "ready" ELSE "uninitialized"

\* C11: mounted starts false, is set to true (once: its only change is from
\* false to true, and it does get set), and no later action sets it back;
\* the lifecycle moves only uninitialized -> ready -> torn down, and a tick
\* runs only in the ready state.
C11_FlagLifecycle ==
    /\ ~mounted
    /\ <>mounted
    /\ [][mounted => mounted']_vars
    /\ [][Lifecycle' # Lifecycle =>
            \/ (Lifecycle = "uninitialized" /\ Lifecycle' = "ready")
            \/ (Lifecycle = "ready" /\ Lifecycle' = "torn down")]_vars
    /\ [][TickStep => (Lifecycle = "ready" /\ Lifecycle' = "ready")]_vars

\* the flag was set, scroll events, re-renders and ticks followed, and the
\* scene was torn down with the flag still true
C11_Witness ==
    /\ rev = "part_000"
    /\ canvas = "unmounted"
    /\ mounted
    /\ ticks >= 2
    /\ scroll # 0
    /\ effectDeps = <<scroll>>

====
